---- MODULE Spec2Model ----
(***************************************************************************)
(* Model of frontend/vite.config.js, loaded once by one invocation of the  *)
(* build tool: the static imports of lines 1-5 are linked, then the module *)
(* body (lines 7-27) is evaluated, which builds the configuration object.  *)
(* Either step can fail; the inputs are fixed for the invocation.          *)
(*                                                                         *)
(* Encodings.                                                              *)
(*  - A JavaScript value is a record [type, str, num]; see Undefined,      *)
(*    Bool, Str, Num.                                                      *)
(*  - A path string is a record [abs, segs]: abs says whether the string   *)
(*    starts with "/", segs are the pieces between the "/" (so "..", "."   *)
(*    and the empty piece of "a//b" appear as segments).  An absolute      *)
(*    normalised path has abs = TRUE and only real names in segs.          *)
(***************************************************************************)
EXTENDS Integers, Sequences, FiniteSets, TLC

VARIABLES
    cwd,            \* process.cwd(): absolute normalised path
    dirname,        \* __dirname: directory holding vite.config.js
    processCI,      \* CI in the process environment: Undefined or a text
    envInjected,    \* whether the loader defines import.meta.env at all
    siteFile,       \* ../../../sites/common_site_config.json
    siblingExists,  \* whether ../<name>/public exists on disk
    deps,           \* the packages of lines 2-4: "ok", "missing", "throws"
    pc,             \* "launch", "linked", "failed", "resolved"
    webserver_port, \* the imported binding (line 5), once linked
    config          \* {} before the default export exists, {cfg} after

vars == <<cwd, dirname, processCI, envInjected, siteFile, siblingExists, deps,
          pc, webserver_port, config>>

----------------------------------------------------------------------------
(* Bounds of the model                                                     *)

MaxDepth == 3

Names == {"apps", "myapp", "frontend"}

Ports == {8000, 8080}

----------------------------------------------------------------------------
(* JavaScript values                                                       *)

Undefined == [type |-> "undefined", str |-> "", num |-> 0]

Bool(b) == [type |-> "boolean", str |-> "", num |-> IF b THEN 1 ELSE 0]

Str(s) == [type |-> "string", str |-> s, num |-> 0]

Num(n) == [type |-> "number", str |-> "", num |-> n]

\* ToBoolean, as the conditional operator applies it to its test
ToBoolean(v) ==
    CASE v.type = "undefined" -> FALSE
      [] v.type = "boolean"   -> v.num = 1
      [] v.type = "string"    -> v.str # ""
      [] v.type = "number"    -> v.num # 0

----------------------------------------------------------------------------
(* Node's path module on POSIX                                             *)

Abs(segs) == [abs |-> TRUE, segs |-> segs]

Rel(segs) == [abs |-> FALSE, segs |-> segs]

RECURSIVE normalizeSegs(_, _)
\* walk the segments left to right over the stack built so far: "" and "."
\* are skipped, ".." drops the last name (and is dropped itself at the root)
normalizeSegs(stack, segs) ==
    IF segs = <<>> THEN stack
    ELSE LET s == Head(segs) IN
         IF s = "" \/ s = "." THEN normalizeSegs(stack, Tail(segs))
         ELSE IF s = ".."
              THEN normalizeSegs(IF stack = <<>> THEN <<>>
                                 ELSE SubSeq(stack, 1, Len(stack) - 1),
                                 Tail(segs))
              ELSE normalizeSegs(Append(stack, s), Tail(segs))

RECURSIVE joinFromRight(_, _)
\* path.resolve takes its arguments from the right until one is absolute
joinFromRight(args, acc) ==
    IF args = <<>> THEN Rel(acc)
    ELSE LET a == args[Len(args)] IN
         IF a.abs THEN Abs(a.segs \o acc)
         ELSE joinFromRight(SubSeq(args, 1, Len(args) - 1), a.segs \o acc)

\* path.resolve(...args) in a process whose working directory is wd
path_resolve(wd, args) ==
    LET j == joinFromRight(args, <<>>) IN
    Abs(normalizeSegs(<<>>, IF j.abs THEN j.segs ELSE wd.segs \o j.segs))

\* path.basename(p) of an absolute normalised path: "" for the root
path_basename(p) ==
    IF p.segs = <<>> THEN "" ELSE p.segs[Len(p.segs)]

----------------------------------------------------------------------------
(* The configuration object, field by field                                *)

DevServerPort == 8080

\* line 8
plugins == <<"vue">>

\* variant: the proxy is given the dev server's own port
server_ownPort(port) ==
    [port |-> DevServerPort,
     proxy |-> [getProxyOptions |-> [port |-> Num(DevServerPort)]]]

\* lines 9-12: the proxy options are built by the external constructor,
\* recorded here by the argument it is called with
server(port) ==
    [port |-> DevServerPort, proxy |-> [getProxyOptions |-> [port |-> port]]]

\* variant: path.resolve('src'), which starts from the working directory
resolve_alias_cwd(wd, dir) ==
    [at |-> path_resolve(wd, <<Rel(<<"src">>)>>)]

\* lines 13-17
resolve_alias(wd, dir) ==
    [at |-> path_resolve(wd, <<dir, Rel(<<"src">>)>>)]

\* variant: '../public/frontend', without the computed name
build_outDir_flat(wd) == Rel(<<"..", "public", "frontend">>)

\* variant: the name written out instead of computed
build_outDir_literal(wd) == Rel(<<"..", "myapp", "public", "frontend">>)

\* variant: the directory is looked up on disk, with a fallback
build_outDir_probed(wd) ==
    IF siblingExists
    THEN Rel(<<"..", path_basename(path_resolve(wd, <<Rel(<<"..">>)>>)),
               "public", "frontend">>)
    ELSE Rel(<<"dist">>)

\* line 19: `../${path.basename(path.resolve('..'))}/public/frontend`
build_outDir(wd) ==
    Rel(<<"..", path_basename(path_resolve(wd, <<Rel(<<"..">>)>>)),
          "public", "frontend">>)

\* import.meta.env as the module sees it: undefined when the loader does not
\* define it, else an object holding the process environment's CI
import_meta_env(ci, injected) ==
    IF injected THEN [defined |-> TRUE, CI |-> ci]
    ELSE [defined |-> FALSE, CI |-> Undefined]

\* line 22: import.meta?.env?.CI
metaEnvCI(env) == IF env.defined THEN env.CI ELSE Undefined

\* variant: CI === true ? false : 'inline'
build_sourcemap_strict(env) ==
    IF metaEnvCI(env) = Bool(TRUE) THEN Bool(FALSE) ELSE Str("inline")

\* line 22
build_sourcemap(env) ==
    IF ToBoolean(metaEnvCI(env)) THEN Bool(FALSE) ELSE Str("inline")

\* lines 18-23
build(wd, env) ==
    [outDir |-> build_outDir(wd), emptyOutDir |-> TRUE, target |-> "es2015",
     sourcemap |-> build_sourcemap(env)]

\* lines 24-26
optimizeDeps == [include |-> <<"feather-icons", "showdown", "engine.io-client">>]

\* lines 7-27; defineConfig hands back the object it is given
defineConfig(wd, dir, env, port) ==
    [plugins |-> plugins,
     server |-> server(port),
     resolve |-> [alias |-> resolve_alias(wd, dir)],
     build |-> build(wd, env),
     optimizeDeps |-> optimizeDeps]

\* variant: a name the file lacks is bound to undefined instead
importLinks_present(file) == file.present

\* line 5: a named import links only if the module it names exists and
\* exports that name
importLinks(file) == file.present /\ file.hasPort

\* the build tool resolves build.outDir against its root, the working directory
outputDirectory(root, cfg) == path_resolve(root, <<cfg.build.outDir>>)

----------------------------------------------------------------------------
(* Inputs                                                                  *)

RECURSIVE SeqsUpTo(_)
SeqsUpTo(n) ==
    IF n = 0 THEN {<<>>}
    ELSE LET shorter == SeqsUpTo(n - 1) IN
         shorter \cup {Append(s, x) : s \in shorter, x \in Names}

Dirs == {Abs(s) : s \in SeqsUpTo(MaxDepth)}

\* the directory holding d (the root holds itself)
parentDir(d) ==
    IF d.segs = <<>> THEN d ELSE Abs(SubSeq(d.segs, 1, Len(d.segs) - 1))

\* the configuration file lies in the working directory, in a
\* subdirectory of it, or in its parent
nearBy(d, wd) == d = wd \/ parentDir(d) = wd \/ d = parentDir(wd)

ConfigDirs(wd) == {d \in Dirs : nearBy(d, wd)}

\* texts the environment variable CI carries, or Undefined when unset
ProcessCIValues == {Undefined, Str("true"), Str("false"), Str("")}

SiteFiles ==
    {[present |-> FALSE, hasPort |-> FALSE, port |-> 0],
     [present |-> TRUE, hasPort |-> FALSE, port |-> 0]}
        \cup {[present |-> TRUE, hasPort |-> TRUE, port |-> p] : p \in Ports}

\* the packages imported on lines 2-4: installed and working, not
\* installed, or installed with vue() or getProxyOptions() throwing
DepStates == {"ok", "missing", "throws"}

metaEnv == import_meta_env(processCI, envInjected)

----------------------------------------------------------------------------
(* One invocation of the build tool                                        *)

Launch(wds) ==
    /\ cwd \in wds
    /\ processCI \in ProcessCIValues
    /\ envInjected \in BOOLEAN
    /\ siteFile \in SiteFiles
    /\ siblingExists \in BOOLEAN
    /\ deps \in DepStates
    /\ pc = "launch"
    /\ webserver_port = Undefined
    /\ config = {}

Init ==
    /\ Launch(Dirs)
    /\ dirname \in ConfigDirs(cwd)

\* lines 1-5 link: the binding holds the file's webserver_port
Link ==
    /\ pc = "launch"
    /\ deps # "missing"
    /\ importLinks(siteFile)
    /\ pc' = "linked"
    /\ webserver_port' = Num(siteFile.port)
    /\ UNCHANGED <<cwd, dirname, processCI, envInjected, siteFile,
                   siblingExists, deps, config>>

\* one of the imports of lines 1-5 does not link: the body never runs
LinkFail ==
    /\ pc = "launch"
    /\ deps = "missing" \/ ~importLinks(siteFile)
    /\ pc' = "failed"
    /\ UNCHANGED <<cwd, dirname, processCI, envInjected, siteFile,
                   siblingExists, deps, webserver_port, config>>

\* lines 7-27: the module body runs and the default export exists
Evaluate ==
    /\ pc = "linked"
    /\ deps = "ok"
    /\ config' = {defineConfig(cwd, dirname, metaEnv, webserver_port)}
    /\ pc' = "resolved"
    /\ UNCHANGED <<cwd, dirname, processCI, envInjected, siteFile,
                   siblingExists, deps, webserver_port>>

\* lines 8, 11: vue() or getProxyOptions() throws, no default export
EvaluateThrows ==
    /\ pc = "linked"
    /\ deps = "throws"
    /\ pc' = "failed"
    /\ UNCHANGED <<cwd, dirname, processCI, envInjected, siteFile,
                   siblingExists, deps, webserver_port, config>>

Next ==
    \/ Link
    \/ LinkFail
    \/ Evaluate
    \/ EvaluateThrows

Spec == Init /\ [][Next]_vars

----------------------------------------------------------------------------
(* The invocation in the project root /work/apps/myapp/frontend            *)

ExampleRoot == Abs(<<"work", "apps", "myapp", "frontend">>)

InitExample ==
    /\ Launch({ExampleRoot})
    /\ dirname \in {ExampleRoot, parentDir(ExampleRoot)}

SpecExample == InitExample /\ [][Next]_vars

----------------------------------------------------------------------------
(* Shorthands for the properties                                           *)

Resolved == pc = "resolved"

cfg == CHOOSE c \in config : TRUE

\* the directory the build output lands in
outDirResolved == outputDirectory(cwd, cfg)

isUnder(p, d) ==
    /\ Len(p.segs) >= Len(d.segs)
    /\ SubSeq(p.segs, 1, Len(d.segs)) = d.segs

endsIn(p, tail) ==
    /\ Len(p.segs) >= Len(tail)
    /\ SubSeq(p.segs, Len(p.segs) - Len(tail) + 1, Len(p.segs)) = tail

\* the name of the directory holding d, "" when that is the root
parentName(d) ==
    LET up == parentDir(d).segs IN IF up = <<>> THEN "" ELSE up[Len(up)]

----------------------------------------------------------------------------
(* Properties                                                              *)

\* C1 (the half about CI being set): whenever the process runs with CI=true,
\* the resolved build.sourcemap is false, and it is never anything but false
\* or 'inline'.
C1_CITrueDisablesSourcemap ==
    Resolved =>
        /\ cfg.build.sourcemap \in {Bool(FALSE), Str("inline")}
        /\ processCI = Str("true") => cfg.build.sourcemap = Bool(FALSE)

\* C2: with CI set to false, be it the boolean or the text 'false' an
\* environment variable carries, build.sourcemap is 'inline' as when unset.
C2_FalseMeansInline ==
    (Resolved /\ metaEnv.defined /\ metaEnv.CI \in {Bool(FALSE), Str("false")})
        => cfg.build.sourcemap = Str("inline")

\* C3 as stated: from the project root /work/apps/myapp/frontend the output
\* directory is /work/apps/myapp/public/frontend.
C3_ExampleAsStated ==
    (Resolved /\ cwd = ExampleRoot)
        => outDirResolved = Abs(<<"work", "apps", "myapp", "public", "frontend">>)

\* C3 amended: from the project root /work/apps/myapp/frontend the output
\* directory is /work/apps/myapp/myapp/public/frontend.
C3_ExampleOutput ==
    (Resolved /\ cwd = ExampleRoot)
        => outDirResolved =
               Abs(<<"work", "apps", "myapp", "myapp", "public", "frontend">>)

C3_Witness ==
    /\ pc = "resolved"
    /\ cwd = ExampleRoot
    /\ dirname = ExampleRoot
    /\ cfg.build.outDir = Rel(<<"..", "myapp", "public", "frontend">>)

\* C4 as stated (for project directories other than the filesystem root):
\* the output directory ends in public/frontend, lies under the project
\* directory's parent and is not nested inside the project directory.
C4_SiblingAsStated ==
    (Resolved /\ cwd.segs # <<>>) =>
        /\ endsIn(outDirResolved, <<"public", "frontend">>)
        /\ isUnder(outDirResolved, parentDir(cwd))
        /\ ~isUnder(outDirResolved, cwd)

\* C4 amended: for every project location the output directory is
\* <parent>/<name of parent>/public/frontend, the name computed from the
\* working directory (it drops out when the parent is the root); it lies
\* under the project directory's parent, and it is outside the project
\* directory when that parent is not the root and the project directory's
\* name differs from its parent's name.
C4_OutputUnderParent ==
    Resolved =>
        /\ outDirResolved =
               Abs(parentDir(cwd).segs
                     \o (IF parentName(cwd) = "" THEN <<>> ELSE <<parentName(cwd)>>)
                     \o <<"public", "frontend">>)
        /\ endsIn(outDirResolved, <<"public", "frontend">>)
        /\ isUnder(outDirResolved, parentDir(cwd))
        /\ (Len(cwd.segs) >= 2 /\ cwd.segs[Len(cwd.segs)] # parentName(cwd))
               => ~isUnder(outDirResolved, cwd)

C4_Witness ==
    /\ Resolved
    /\ Len(cwd.segs) >= 2
    /\ cwd.segs[Len(cwd.segs)] # parentName(cwd)
    /\ parentName(cwd) # "myapp"
    /\ cfg.build.outDir.segs[2] = parentName(cwd)
    /\ ~isUnder(outDirResolved, cwd)

\* C5: with webserver_port = P in the site file, the proxy options are built
\* from port P, whatever P is, and the dev server's port is 8080.
C5_ProxyUsesSitePort ==
    Resolved =>
        /\ cfg.server.proxy.getProxyOptions.port = Num(siteFile.port)
        /\ cfg.server.port = 8080

C5_Witness ==
    /\ Resolved
    /\ siteFile.port = 8000
    /\ cfg.server.proxy.getProxyOptions.port = Num(8000)
    /\ cfg.server.port = 8080

\* C6: when the site file is missing or has no webserver_port, loading
\* fails: no configuration object exists, no port was bound, and the build
\* tool never gets to evaluate the module or start up.
C6_ImportFailureYieldsNoConfig ==
    (~siteFile.present \/ ~siteFile.hasPort) =>
        /\ pc \in {"launch", "failed"}
        /\ config = {}
        /\ webserver_port = Undefined

C6_Witness ==
    /\ pc = "failed"
    /\ siteFile.present
    /\ ~siteFile.hasPort
    /\ config = {}

\* C7 as stated: when the sibling directory structure does not exist,
\* resolution fails and returns no configuration.
C7_MissingSiblingFails ==
    ~siblingExists => config = {}

\* C7 amended: resolution does not look at the disk: when the sibling
\* directory structure does not exist it still returns a configuration,
\* whose build.outDir is '../<name of the working directory's parent>/
\* public/frontend', the same as when the structure exists.
C7_ResolutionIgnoresDisk ==
    Resolved =>
        /\ config # {}
        /\ cfg.build.outDir =
               Rel(<<"..", parentName(cwd), "public", "frontend">>)

C7_Witness ==
    /\ pc = "resolved"
    /\ ~siblingExists
    /\ config # {}
    /\ cfg.build.outDir = Rel(<<"..", parentName(cwd), "public", "frontend">>)

\* C9: the '@' alias is the src directory next to the configuration file,
\* an absolute path, whatever the working directory, CI and port are.
C9_AliasNextToConfigFile ==
    Resolved =>
        /\ cfg.resolve.alias.at = Abs(Append(dirname.segs, "src"))
        /\ cfg.resolve.alias.at.abs

C9_Witness ==
    /\ Resolved
    /\ cwd # dirname
    /\ cfg.resolve.alias.at = Abs(Append(dirname.segs, "src"))

\* C10: the directory name inside build.outDir is the name of the parent of
\* the configuration file's directory, for every working directory.
C10_SameBaseAsAlias ==
    Resolved => cfg.build.outDir.segs[2] = parentName(dirname)

====
